---------------------------- MODULE Spec2Model ----------------------------
(***************************************************************************)
(* A model of homework.py: the workout classes Training, Running,          *)
(* SportsWalking and Swimming, the report InfoMessage, the dispatcher      *)
(* read_package and the batch loop of the __main__ block.                  *)
(*                                                                         *)
(* Numbers.  Python's int and float values are modelled as exact           *)
(* rationals in lowest terms, [n |-> numerator, d |-> denominator > 0].    *)
(* Every arithmetic step of the source is one RMul / RDiv / RAdd step of   *)
(* the model, in the order the source evaluates it.  Binary rounding of    *)
(* floats is not modelled; '{:.3f}' is modelled by Fmt3.                   *)
(*                                                                         *)
(* Outcomes.  A call either returns a value or raises an exception:        *)
(* [kind |-> "return", value |-> v] or [kind |-> "raise", value |-> name   *)
(* of the exception class].                                                *)
(***************************************************************************)
EXTENDS Integers, Sequences, FiniteSets, TLC

VARIABLES
    training,   \* the object the client holds (NoObject before construction)
    built,      \* a copy of that object as it was when the constructor returned
    args,       \* how the object was requested: [via, code, data]
    ret,        \* the outcome of the last call: [op, kind, value]
    calls,      \* number of query calls made on the object so far
    packages,   \* __main__: the list of (workout_type, data) pairs
    idx,        \* __main__: index of the pair the for loop is at
    local,      \* __main__: the loop variable `training` (NoObject between iterations)
    stdout,     \* __main__: the lines printed so far
    pc,         \* __main__: "read" | "main" | "done" | "raised" ("idle" outside the batch)
    uncaught    \* __main__: the exception that ended the program, or "none"

vars == <<training, built, args, ret, calls,
          packages, idx, local, stdout, pc, uncaught>>

objVars   == <<training, built, args, ret, calls>>
batchVars == <<packages, idx, local, stdout, pc, uncaught>>

-----------------------------------------------------------------------------
(* Exact rational arithmetic standing for Python's numeric operators.      *)

Abs(x) == IF x < 0 THEN -x ELSE x

RECURSIVE GCD(_, _)
GCD(a, b) == IF b = 0 THEN a ELSE GCD(b, a % b)

\* n/d in lowest terms with a positive denominator (d # 0).
Norm(n, d) ==
    LET s == IF d < 0 THEN -1 ELSE 1
        g == GCD(Abs(n), Abs(d))
    IN  [n |-> (s * n) \div g, d |-> (s * d) \div g]

\* A Python int literal, and a decimal literal such as 0.65 == Dec(65, 100).
N(i) == [n |-> i, d |-> 1]
Dec(n, d) == Norm(n, d)

IsZero(a) == a.n = 0

\* a * b (cancelling across before multiplying keeps the integers small).
RMul(a, b) ==
    LET g1 == GCD(Abs(a.n), b.d)
        g2 == GCD(Abs(b.n), a.d)
    IN  Norm((a.n \div g1) * (b.n \div g2), (a.d \div g2) * (b.d \div g1))

\* a / b for b # 0 (the callers raise ZeroDivisionError when b = 0).
RDiv(a, b) ==
    RMul(a, IF b.n < 0 THEN [n |-> -b.d, d |-> -b.n] ELSE [n |-> b.d, d |-> b.n])

\* a + b.
RAdd(a, b) ==
    LET g == GCD(a.d, b.d)
    IN  Norm(a.n * (b.d \div g) + b.n * (a.d \div g), (a.d \div g) * b.d)

\* '{:.3f}'.format(x): x rounded to three decimals (ties to even), given as
\* the number of thousandths, so 9.75 is rendered 9750, i.e. "9.750".
Fmt3(x) ==
    LET a  == Abs(x.n)
        q  == a \div x.d
        r0 == a % x.d
        d1 == (r0 * 10) \div x.d
        r1 == (r0 * 10) % x.d
        d2 == (r1 * 10) \div x.d
        r2 == (r1 * 10) % x.d
        d3 == (r2 * 10) \div x.d
        r3 == (r2 * 10) % x.d
        fl == q * 1000 + d1 * 100 + d2 * 10 + d3
        up == \/ 2 * r3 > x.d
              \/ 2 * r3 = x.d /\ fl % 2 = 1
        m  == IF up THEN fl + 1 ELSE fl
    IN  IF x.n < 0 THEN -m ELSE m

-----------------------------------------------------------------------------
(* Outcomes of calls.                                                      *)

Return(v) == [kind |-> "return", value |-> v]
Raise(e)  == [kind |-> "raise", value |-> e]

NoObject == [cls |-> "None"]

-----------------------------------------------------------------------------
(* class Training                                                          *)

M_IN_KM == 1000
MIN_IN_H == 60

\* Mutant of LEN_STEP: Swimming does not override the step length.
LEN_STEP_NoOverride(cls) == Dec(65, 100)

\* LEN_STEP as seen from an instance of cls: Swimming overrides the value
\* of Training.
LEN_STEP(cls) == IF cls = "Swimming" THEN Dec(138, 100) ELSE Dec(65, 100)

\* Training.__init__, run for an instance of class cls.
Training_init(cls, action, duration, weight) ==
    [cls |-> cls,
     attrs |-> [action |-> action, duration |-> duration, weight_kg |-> weight]]

\* Training.get_distance: never raises, changes nothing.
get_distance(self) ==
    RDiv(RMul(self.attrs.action, LEN_STEP(self.cls)), N(M_IN_KM))

Training_get_mean_speed(self) ==
    IF IsZero(self.attrs.duration)
    THEN Raise("ZeroDivisionError")
    ELSE Return(RDiv(get_distance(self), self.attrs.duration))

\* Mutant of Training_get_spent_calories: a default value instead of the
\* exception.
Training_get_spent_calories_Zero(self) ==
    [ret |-> Return(N(0)), self |-> self]

Training_get_spent_calories(self) ==
    [ret |-> Raise("NotImplementedError"), self |-> self]

-----------------------------------------------------------------------------
(* class Swimming(Training)                                                *)

COEFF_5 == Dec(11, 10)
COEFF_6 == 2

Swimming_init(action, duration, weight, length_pool, count_pool) ==
    LET base == Training_init("Swimming", action, duration, weight)
    IN  [base EXCEPT !.attrs =
            @ @@ [length_pool |-> length_pool, count_pool |-> count_pool]]

Swimming_get_mean_speed(self) ==
    IF IsZero(self.attrs.duration)
    THEN Raise("ZeroDivisionError")
    ELSE Return(RDiv(RDiv(RMul(self.attrs.length_pool, self.attrs.count_pool),
                          N(M_IN_KM)),
                     self.attrs.duration))

\* Mutant of get_mean_speed: Swimming's override is not used.
get_mean_speed_NoOverride(self) == Training_get_mean_speed(self)

\* self.get_mean_speed(): the method of the instance's class.
get_mean_speed(self) ==
    IF self.cls = "Swimming"
    THEN Swimming_get_mean_speed(self)
    ELSE Training_get_mean_speed(self)

\* Mutant of Swimming_get_spent_calories: the factor duration is missing.
Swimming_get_spent_calories_NoDuration(self) ==
    IF Swimming_get_mean_speed(self).kind = "raise"
    THEN [ret |-> Swimming_get_mean_speed(self), self |-> self]
    ELSE [ret |-> Return(RMul(RMul(RAdd(Swimming_get_mean_speed(self).value,
                                        Dec(11, 10)),
                                   N(2)),
                              self.attrs.weight_kg)),
          self |-> self]

Swimming_get_spent_calories(self) ==
    LET speed == get_mean_speed(self)
    IN  IF speed.kind = "raise"
        THEN [ret |-> speed, self |-> self]
        ELSE [ret |-> Return(RMul(RMul(RMul(RAdd(speed.value, COEFF_5),
                                            N(COEFF_6)),
                                       self.attrs.weight_kg),
                                  self.attrs.duration)),
              self |-> self]

-----------------------------------------------------------------------------
(* class Running(Training)                                                 *)

COEFF_1 == 18
COEFF_2 == Dec(179, 100)

Running_init(action, duration, weight) ==
    Training_init("Running", action, duration, weight)

\* Mutant of Running_get_spent_calories: hours are not converted to minutes.
Running_get_spent_calories_NoMinutes(self) ==
    IF Training_get_mean_speed(self).kind = "raise"
    THEN [ret |-> Training_get_mean_speed(self), self |-> self]
    ELSE [ret |-> Return(
              RMul(RDiv(RMul(RAdd(RMul(N(18), Training_get_mean_speed(self).value),
                                  Dec(179, 100)),
                             self.attrs.weight_kg),
                        N(1000)),
                   self.attrs.duration)),
          self |-> self]

Running_get_spent_calories(self) ==
    LET speed == get_mean_speed(self)
    IN  IF speed.kind = "raise"
        THEN [ret |-> speed, self |-> self]
        ELSE [ret |-> Return(
                  RMul(RDiv(RMul(RAdd(RMul(N(COEFF_1), speed.value), COEFF_2),
                                 self.attrs.weight_kg),
                            N(M_IN_KM)),
                       RMul(self.attrs.duration, N(MIN_IN_H)))),
              self |-> self]

-----------------------------------------------------------------------------
(* class SportsWalking(Training)                                           *)

COEFF_3 == Dec(35, 1000)
COEFF_4 == Dec(29, 1000)
M_IN_SEC == Dec(278, 1000)
H_MET == 100

SportsWalking_init(action, duration, weight, height) ==
    LET base == Training_init("SportsWalking", action, duration, weight)
    IN  [base EXCEPT !.attrs = @ @@ [height_cm |-> height]]

\* obj.name = value on an instance: rebinds an attribute or creates it.
SetAttr(self, name, value) ==
    [self EXCEPT !.attrs =
        [a \in DOMAIN self.attrs \cup {name} |->
            IF a = name THEN value ELSE self.attrs[a]]]

\* The three assignments to self (lines 95-97) happen before the return
\* expression is evaluated, so they persist when that expression raises.
SportsWalking_get_spent_calories(self) ==
    LET speed == get_mean_speed(self)
    IN  IF speed.kind = "raise"
        THEN [ret |-> speed, self |-> self]
        ELSE
          LET s1 == SetAttr(self, "speed_ms", RMul(speed.value, M_IN_SEC))
              s2 == SetAttr(s1, "height_cm", RDiv(s1.attrs.height_cm, N(H_MET)))
              s3 == SetAttr(s2, "time_in_min", RMul(s2.attrs.duration, N(MIN_IN_H)))
          IN  IF IsZero(s3.attrs.height_cm)
              THEN [ret |-> Raise("ZeroDivisionError"), self |-> s3]
              ELSE [ret |-> Return(
                        RMul(RAdd(RMul(COEFF_3, s3.attrs.weight_kg),
                                  RMul(RMul(RDiv(RMul(s3.attrs.speed_ms,
                                                      s3.attrs.speed_ms),
                                                 s3.attrs.height_cm),
                                            COEFF_4),
                                       s3.attrs.weight_kg)),
                             s3.attrs.time_in_min)),
                    self |-> s3]

-----------------------------------------------------------------------------
(* Method resolution, show_training_info and InfoMessage                   *)

\* self.get_spent_calories(): the method of the instance's class.
get_spent_calories(self) ==
    CASE self.cls = "Running"       -> Running_get_spent_calories(self)
      [] self.cls = "SportsWalking" -> SportsWalking_get_spent_calories(self)
      [] self.cls = "Swimming"      -> Swimming_get_spent_calories(self)
      [] OTHER                      -> Training_get_spent_calories(self)

\* The dataclass InfoMessage (its message field keeps the default template).
InfoMessage(training_type, duration, distance, speed, calories) ==
    [training_type |-> training_type, duration |-> duration,
     distance |-> distance, speed |-> speed, calories |-> calories]

\* Training.show_training_info: the constructor's arguments are evaluated
\* left to right, so get_mean_speed raises before get_spent_calories runs.
show_training_info(self) ==
    LET distance == get_distance(self)
        speed    == get_mean_speed(self)
    IN  IF speed.kind = "raise"
        THEN [ret |-> speed, self |-> self]
        ELSE
          LET cal == get_spent_calories(self)
          IN  IF cal.ret.kind = "raise"
              THEN cal
              ELSE [ret |-> Return(InfoMessage(self.cls, self.attrs.duration,
                                               distance, speed.value,
                                               cal.ret.value)),
                    self |-> cal.self]

\* InfoMessage.get_message: the template filled in; the fixed text of the
\* template is left out, the four numbers are rendered with three decimals.
get_message(info) ==
    [training_type |-> info.training_type,
     duration |-> Fmt3(info.duration),
     distance |-> Fmt3(info.distance),
     speed    |-> Fmt3(info.speed),
     calories |-> Fmt3(info.calories)]

-----------------------------------------------------------------------------
(* read_package                                                            *)

\* Mutant of training_data: the classes of 'RUN' and 'WLK' are exchanged.
training_data_Swapped ==
    [SWM |-> "Swimming", RUN |-> "SportsWalking", WLK |-> "Running"]

\* The dict training_data of read_package.
training_data ==
    [SWM |-> "Swimming", RUN |-> "Running", WLK |-> "SportsWalking"]

\* Number of positional parameters of cls.__init__ besides self.
Arity(cls) ==
    CASE cls = "Swimming"      -> 5
      [] cls = "SportsWalking" -> 4
      [] OTHER                 -> 3

\* cls(*data): TypeError unless data has one value per parameter.
New(cls, data) ==
    IF Len(data) # Arity(cls)
    THEN Raise("TypeError")
    ELSE Return(
        CASE cls = "Swimming" ->
               Swimming_init(data[1], data[2], data[3], data[4], data[5])
          [] cls = "SportsWalking" ->
               SportsWalking_init(data[1], data[2], data[3], data[4])
          [] cls = "Running" ->
               Running_init(data[1], data[2], data[3])
          [] OTHER ->
               Training_init("Training", data[1], data[2], data[3]))

\* Mutant of read_package: an unknown code falls back to the base class.
read_package_Fallback(workout_type, data) ==
    IF workout_type \notin DOMAIN training_data
    THEN New("Training", data)
    ELSE New(training_data[workout_type], data)

read_package(workout_type, data) ==
    IF workout_type \notin DOMAIN training_data
    THEN Raise("ValueError")
    ELSE New(training_data[workout_type], data)

\* Line 147, print(info.get_message()), given the outcome of line 146 and
\* what was printed before: an exception of show_training_info propagates
\* and nothing is printed.
print_message(info, out) ==
    IF info.kind = "raise"
    THEN [ret |-> info, stdout |-> out]
    ELSE [ret |-> Return("None"), stdout |-> Append(out, get_message(info.value))]

\* main(training); `out` is what was printed before the call.
main(t, out) == print_message(show_training_info(t).ret, out)

-----------------------------------------------------------------------------
(* Inputs                                                                  *)

MaxCalls == 2   \* query calls made on one object
MaxBatch == 3   \* pairs in one batch

Codes   == {"SWM", "RUN", "WLK", "XYZ"}
Classes == {"Training", "Running", "SportsWalking", "Swimming"}

DataRun ==
    {<<N(a), N(d), N(w)>> : a \in {15000, 20000}, d \in {0, 1, 2}, w \in {75, 80}}
DataWlk ==
    {<<N(a), N(d), N(75), N(h)>> : a \in {15000, 20000}, d \in {0, 1}, h \in {0, 180}}
DataSwm ==
    {<<N(a), N(d), N(80), N(lp), N(40)>> :
        a \in {720, 15000}, d \in {0, 1, 2}, lp \in {25, 50}}
Data == DataRun \cup DataWlk \cup DataSwm

\* The pairs a batch is made of: the sample pairs of the __main__ block and
\* three pairs that fail (unknown code, one value too many, zero duration).
\* The walking sample has 15000 steps instead of 9000: the exact calories
\* of 9000 steps have a denominator of 2 * 10^10, beyond TLC's integers.
SamplePackages ==
    { <<"SWM", <<N(720), N(1), N(80), N(25), N(40)>> >>,
      <<"RUN", <<N(15000), N(1), N(75)>> >>,
      <<"WLK", <<N(15000), N(1), N(75), N(180)>> >>,
      <<"XYZ", <<N(15000), N(1), N(75)>> >>,
      <<"RUN", <<N(15000), N(1), N(75), N(180)>> >>,
      <<"RUN", <<N(15000), N(0), N(75)>> >> }

\* Every list of 1..MaxBatch pairs.
Batches == UNION {[1..n -> SamplePackages] : n \in 1..MaxBatch}

NoCall == [op |-> "none", kind |-> "none", value |-> "none"]
NoArgs == [via |-> "none", code |-> "none", data |-> <<>>]

Outcome(op, r) == [op |-> op, kind |-> r.kind, value |-> r.value]

-----------------------------------------------------------------------------
(* Spec: a client that obtains one object and queries it                   *)

Init ==
    /\ training = NoObject
    /\ built = NoObject
    /\ args = NoArgs
    /\ ret = NoCall
    /\ calls = 0
    /\ packages = <<>>
    /\ idx = 0
    /\ local = NoObject
    /\ stdout = <<>>
    /\ pc = "idle"
    /\ uncaught = "none"

\* The client takes the object a constructing call returned, if it returned.
Obtain(via, code, data, r) ==
    /\ args' = [via |-> via, code |-> code, data |-> data]
    /\ ret' = Outcome(via, r)
    /\ training' = IF r.kind = "return" THEN r.value ELSE NoObject
    /\ built' = training'
    /\ calls' = 0
    /\ UNCHANGED batchVars

CallReadPackage ==
    /\ ret = NoCall
    /\ \E workout_type \in Codes, data \in Data :
          Obtain("read_package", workout_type, data,
                 read_package(workout_type, data))

CallConstructor ==
    /\ ret = NoCall
    /\ \E cls \in Classes, data \in Data :
          Obtain("constructor", cls, data, New(cls, data))

\* A query call: its outcome goes to ret, the object is what the call left.
Query(op, r, self) ==
    /\ ret' = Outcome(op, r)
    /\ training' = self
    /\ calls' = calls + 1
    /\ UNCHANGED <<built, args>>
    /\ UNCHANGED batchVars

\* The client can call while it holds an object (and within the bound).
CanCall == training # NoObject /\ calls < MaxCalls

CallGetDistance ==
    /\ CanCall
    /\ Query("get_distance", Return(get_distance(training)), training)

CallGetMeanSpeed ==
    /\ CanCall
    /\ Query("get_mean_speed", get_mean_speed(training), training)

CallGetSpentCalories ==
    /\ CanCall
    /\ \E c \in {get_spent_calories(training)} :
           Query("get_spent_calories", c.ret, c.self)

CallShowTrainingInfo ==
    /\ CanCall
    /\ \E c \in {show_training_info(training)} :
           Query("show_training_info", c.ret, c.self)

Next ==
    \/ CallReadPackage
    \/ CallConstructor
    \/ CallGetDistance
    \/ CallGetMeanSpeed
    \/ CallGetSpentCalories
    \/ CallShowTrainingInfo

Spec == Init /\ [][Next]_vars

-----------------------------------------------------------------------------
(* SpecBatch: the __main__ block run on a batch of pairs                   *)

InitBatch ==
    /\ training = NoObject
    /\ built = NoObject
    /\ args = NoArgs
    /\ ret = NoCall
    /\ calls = 0
    /\ packages \in Batches
    /\ idx = 1
    /\ local = NoObject
    /\ stdout = <<>>
    /\ pc = "read"
    /\ uncaught = "none"

\* training = read_package(workout_type, data)
BatchRead ==
    /\ pc = "read"
    /\ idx <= Len(packages)
    /\ \E r \in {read_package(packages[idx][1], packages[idx][2])} :
           IF r.kind = "raise"
           THEN /\ pc' = "raised"
                /\ uncaught' = r.value
                /\ UNCHANGED local
           ELSE /\ pc' = "main"
                /\ local' = r.value
                /\ UNCHANGED uncaught
    /\ UNCHANGED <<packages, idx, stdout>>
    /\ UNCHANGED objVars

\* main(training), then on to the next pair
BatchMain ==
    /\ pc = "main"
    /\ \E m \in {main(local, stdout)} :
           IF m.ret.kind = "raise"
           THEN /\ pc' = "raised"
                /\ uncaught' = m.ret.value
                /\ UNCHANGED <<idx, stdout>>
           ELSE /\ pc' = "read"
                /\ stdout' = m.stdout
                /\ idx' = idx + 1
                /\ UNCHANGED uncaught
    /\ UNCHANGED <<packages, local>>
    /\ UNCHANGED objVars

\* the for loop is exhausted
BatchExit ==
    /\ pc = "read"
    /\ idx > Len(packages)
    /\ pc' = "done"
    /\ UNCHANGED <<packages, idx, local, stdout, uncaught>>
    /\ UNCHANGED objVars

NextBatch ==
    \/ BatchRead
    \/ BatchMain
    \/ BatchExit

SpecBatch == InitBatch /\ [][NextBatch]_vars

-----------------------------------------------------------------------------
(* Properties                                                              *)

Variants == {"Running", "SportsWalking", "Swimming"}

\* The integers the constructor was given (the inputs are Python ints).
A0 == built.attrs.action.n
T0 == built.attrs.duration.n
W0 == built.attrs.weight_kg.n

Returned(op) == ret.op = op /\ ret.kind = "return"
Raised(op, e) == ret.op = op /\ ret.kind = "raise" /\ ret.value = e

SameOutcome(a, b) == a.kind = b.kind /\ a.value = b.value

\* ---- C1 ----------------------------------------------------------------
\* Mean speed of a Running or SportsWalking workout from the constructor's
\* integers: action * 0.65 / 1000 / duration.
StepSpeed == Norm(A0 * 65, 100 * 1000 * T0)

RunningCalories(k2) ==
    RMul(RDiv(RMul(RAdd(RMul(N(18), StepSpeed), k2), N(W0)), N(1000)),
         RMul(N(T0), N(60)))

SampleRun == Running_init(N(15000), N(1), N(75))

\* C1 as claimed: for every Running workout with duration > 0,
\* get_spent_calories returns (18 * mean_speed - 20) * weight / 1000 *
\* (duration * 60); for ('RUN', [15000, 1, 75]) that is 699.750.
C1_Original ==
    (ret.op = "get_spent_calories" /\ training.cls = "Running" /\ T0 > 0)
        => /\ SameOutcome(ret, Return(RunningCalories(N(-20))))
           /\ (built = SampleRun => ret.value = Dec(699750, 1000))

\* C1 amended: for every Running workout with duration > 0,
\* get_spent_calories returns (18 * mean_speed + 1.79) * weight / 1000 *
\* (duration * 60); for ('RUN', [15000, 1, 75]) that is 797.805.
C1_RunningCalories ==
    (ret.op = "get_spent_calories" /\ training.cls = "Running" /\ T0 > 0)
        => /\ SameOutcome(ret, Return(RunningCalories(Dec(179, 100))))
           /\ (built = SampleRun => ret.value = Dec(797805, 1000))

C1_Witness ==
    /\ Returned("get_spent_calories")
    /\ built = SampleRun
    /\ ret.value = Dec(797805, 1000)

\* ---- C2 ----------------------------------------------------------------
\* C2 as claimed: after any sequence of query calls on a workout of any
\* variant, every field the constructor set has the value the constructor
\* gave it.
C2_FieldsUnchanged ==
    training.cls \in Variants
        => \A f \in DOMAIN built.attrs : training.attrs[f] = built.attrs[f]

\* ---- C3 ----------------------------------------------------------------
\* C3 as claimed: with duration > 0, every call of get_spent_calories or
\* show_training_info on a workout of any variant has the outcome the same
\* call has on the object as constructed, however many calls came before.
C3_RepeatedCalls ==
    (training.cls \in Variants /\ T0 > 0)
        => /\ ret.op = "get_spent_calories"
                => SameOutcome(ret, get_spent_calories(built).ret)
           /\ ret.op = "show_training_info"
                => SameOutcome(ret, show_training_info(built).ret)

\* ---- C4 ----------------------------------------------------------------
\* Python's look-up errors: LookupError and its subclasses.
LookupErrors == {"LookupError", "KeyError", "IndexError"}

UnknownCodeCall == ret.op = "read_package" /\ args.code \notin {"SWM", "RUN", "WLK"}

\* C4 as claimed: read_package with an unknown workout_type fails with a
\* look-up (unknown-key) error for every data argument, and no object is
\* constructed.
C4_Original ==
    UnknownCodeCall
        => /\ ret.kind = "raise"
           /\ ret.value \in LookupErrors
           /\ training = NoObject

\* C4 amended: read_package with an unknown workout_type fails with a
\* ValueError for every data argument, whatever its length, and no object
\* is constructed.
C4_UnknownCode ==
    UnknownCodeCall
        => /\ ret.kind = "raise"
           /\ ret.value = "ValueError"
           /\ training = NoObject
           /\ built = NoObject

C4_Witness ==
    /\ Raised("read_package", "ValueError")
    /\ args.code = "XYZ"
    /\ Len(args.data) = 4

\* ---- C6 ----------------------------------------------------------------
\* C6: read_package with a known code and a data list of the matching
\* length returns an object of exactly the variant the code stands for,
\* equal, field by field, to the object the variant's constructor builds
\* from the same values in the same order.
C6_RoundTrip ==
    LET d == args.data
    IN  /\ (ret.op = "read_package" /\ args.code = "SWM" /\ Len(d) = 5)
              => /\ ret.kind = "return"
                 /\ training = Swimming_init(d[1], d[2], d[3], d[4], d[5])
                 /\ training.cls = "Swimming"
                 /\ training.attrs =
                        [action |-> d[1], duration |-> d[2], weight_kg |-> d[3],
                         length_pool |-> d[4], count_pool |-> d[5]]
        /\ (ret.op = "read_package" /\ args.code = "RUN" /\ Len(d) = 3)
              => /\ ret.kind = "return"
                 /\ training = Running_init(d[1], d[2], d[3])
                 /\ training.cls = "Running"
                 /\ training.attrs =
                        [action |-> d[1], duration |-> d[2], weight_kg |-> d[3]]
        /\ (ret.op = "read_package" /\ args.code = "WLK" /\ Len(d) = 4)
              => /\ ret.kind = "return"
                 /\ training = SportsWalking_init(d[1], d[2], d[3], d[4])
                 /\ training.cls = "SportsWalking"
                 /\ training.attrs =
                        [action |-> d[1], duration |-> d[2], weight_kg |-> d[3],
                         height_cm |-> d[4]]

C6_Witness ==
    /\ Returned("read_package")
    /\ args.code = "SWM"
    /\ training.attrs.length_pool = N(50)
    /\ training.attrs.count_pool = N(40)

\* ---- C7 ----------------------------------------------------------------
\* Mean speed of a Swimming workout from the constructor's integers:
\* length_pool * count_pool / 1000 / duration.
PoolSpeed ==
    Norm(built.attrs.length_pool.n * built.attrs.count_pool.n, 1000 * T0)

\* The same workout with another step count.
WithAction(self, a) == [self EXCEPT !.attrs.action = N(a)]
OtherActions == {0, 1, 720, 15000}

\* C7: for every Swimming workout with duration > 0, get_mean_speed is
\* length_pool * count_pool / 1000 / duration; workouts that differ only in
\* action have the same mean speed and the same calories; and the speed of
\* the report of show_training_info is that value.
C7_SwimmingSpeed ==
    (training.cls = "Swimming" /\ T0 > 0)
        => /\ ret.op = "get_mean_speed"
                => /\ SameOutcome(ret, Return(PoolSpeed))
                   /\ \A a \in OtherActions :
                        SameOutcome(get_mean_speed(WithAction(training, a)), ret)
           /\ ret.op = "get_spent_calories"
                => \A a \in OtherActions :
                     SameOutcome(get_spent_calories(WithAction(training, a)).ret, ret)
           /\ ret.op = "show_training_info"
                => ret.kind = "return" /\ ret.value.speed = PoolSpeed

\* A report whose speed is not distance / duration.
C7_Witness ==
    /\ Returned("show_training_info")
    /\ training.cls = "Swimming"
    /\ ret.value.speed = PoolSpeed
    /\ ret.value.speed # RDiv(ret.value.distance, ret.value.duration)

\* ---- C8 ----------------------------------------------------------------
\* C8: get_distance of a Running or SportsWalking workout is
\* action * 0.65 / 1000 and, with duration > 0, get_mean_speed is that
\* distance divided by duration; get_distance of a Swimming workout is
\* action * 1.38 / 1000.
C8_Distance ==
    /\ (ret.op = "get_distance" /\ training.cls \in {"Running", "SportsWalking"})
          => SameOutcome(ret, Return(Norm(A0 * 65, 100 * 1000)))
    /\ (ret.op = "get_mean_speed" /\ training.cls \in {"Running", "SportsWalking"}
            /\ T0 > 0)
          => /\ SameOutcome(ret, Return(StepSpeed))
             /\ ret.value = RDiv(get_distance(training), N(T0))
    /\ (ret.op = "get_distance" /\ training.cls = "Swimming")
          => SameOutcome(ret, Return(Norm(A0 * 138, 100 * 1000)))

\* 720 strokes are 0.9936 km.
C8_Witness ==
    /\ Returned("get_distance")
    /\ training.cls = "Swimming"
    /\ A0 = 720
    /\ ret.value = Dec(9936, 10000)

\* ---- C9 ----------------------------------------------------------------
SampleSwim == Swimming_init(N(720), N(1), N(80), N(25), N(40))

\* C9: for every Swimming workout with duration > 0, get_spent_calories is
\* (mean_speed + 1.1) * 2 * weight * duration; ('SWM', [720, 1, 80, 25, 40])
\* has mean speed 1.000 and calories 336.000.
C9_SwimmingCalories ==
    (training.cls = "Swimming" /\ T0 > 0)
        => /\ ret.op = "get_spent_calories"
                => /\ SameOutcome(ret,
                        Return(RMul(RMul(RMul(RAdd(PoolSpeed, Dec(11, 10)), N(2)),
                                         N(W0)),
                                    N(T0))))
                   /\ built = SampleSwim => ret.value = N(336)
           /\ (ret.op = "get_mean_speed" /\ built = SampleSwim)
                => SameOutcome(ret, Return(N(1)))

C9_Witness ==
    /\ Returned("get_spent_calories")
    /\ built = SampleSwim
    /\ ret.value = N(336)

\* ---- C10 ---------------------------------------------------------------
\* C10 as claimed: on a base Training object get_spent_calories fails with
\* NotImplementedError, and so does show_training_info, which returns no
\* InfoMessage; no object returned by read_package is of the base class.
C10_Original ==
    /\ (training.cls = "Training" /\ ret.op = "get_spent_calories")
          => Raised("get_spent_calories", "NotImplementedError")
    /\ (training.cls = "Training" /\ ret.op = "show_training_info")
          => Raised("show_training_info", "NotImplementedError")
    /\ (args.via = "read_package" /\ training # NoObject)
          => training.cls \in Variants

\* C10 amended: on a base Training object get_spent_calories fails with
\* NotImplementedError; show_training_info never returns an InfoMessage: it
\* fails with NotImplementedError when duration is not 0 and with the
\* ZeroDivisionError of get_mean_speed when duration is 0; no object
\* returned by read_package is of the base class.
C10_Unimplemented ==
    /\ (training.cls = "Training" /\ ret.op = "get_spent_calories")
          => Raised("get_spent_calories", "NotImplementedError")
    /\ (training.cls = "Training" /\ ret.op = "show_training_info")
          => IF T0 = 0
             THEN Raised("show_training_info", "ZeroDivisionError")
             ELSE Raised("show_training_info", "NotImplementedError")
    /\ (args.via = "read_package" /\ training # NoObject)
          => training.cls \in Variants

C10_Witness ==
    /\ training.cls = "Training"
    /\ T0 > 0
    /\ Raised("show_training_info", "NotImplementedError")

\* ---- C5 ----------------------------------------------------------------
\* What the program prints for one pair processed on its own.
LinesOf(p) ==
    IF read_package(p[1], p[2]).kind = "raise"
    THEN <<>>
    ELSE main(read_package(p[1], p[2]).value, <<>>).stdout

\* The lines of the pairs of ps that can be processed, in order.
RECURSIVE ExpectedLines(_)
ExpectedLines(ps) ==
    IF ps = <<>> THEN <<>> ELSE LinesOf(Head(ps)) \o ExpectedLines(Tail(ps))

\* C5 as claimed: when the program has ended, the report line of every
\* pair that can be processed has been printed, exactly as in a batch
\* without the failing pairs.
C5_Isolation ==
    pc \in {"done", "raised"} => stdout = ExpectedLines(packages)

=============================================================================
